---- MODULE Spec2Model ----
(***************************************************************************)
(* Model of the native MIDI listener (MidiManager.cpp): the polling loop   *)
(* of readThreadRoutine, the decoder parseMidiData, the control-change     *)
(* interpreter parseMidiCmdControl, and the note / sustain bookkeeping     *)
(* (sustain, playNotes, sustainNotes).  The synthesizer and the Java       *)
(* callback are observers: every call made to them during one loop         *)
(* iteration is recorded in `calls` and `traces`.                          *)
(***************************************************************************)
EXTENDS Integers, Sequences, FiniteSets, TLC

VARIABLES
    pc,                   \* position of the polling thread in readThreadRoutine
    reading,              \* MidiManager::reading (std::atomic<bool>)
    sustain,              \* MidiManager::sustain
    playNotes,            \* MidiManager::playNotes
    sustainNotes,         \* MidiManager::sustainNotes
    numMessagesReceived,  \* local of readThreadRoutine: result of the receive call
    opcode,               \* local of readThreadRoutine: opcode of the received frame
    incomingMessage,      \* local of readThreadRoutine: the numBytesReceived bytes received
    handed,               \* parseMidiData was called in this iteration
    calls,                \* synthManager calls made in this iteration, in order
    traces,               \* sendToCallback lines emitted in this iteration, in order
    pre,                  \* sustain / playNotes / sustainNotes / latch / lastPedal when the iteration began
    latch,                \* per note: progress since it was last in both sets
    lastPedal,            \* what the previously decoded frame was: pedal "down", "up", "other", "none"
    hist,                 \* recorded run: decoded frames with the state each one left
    log,                  \* recorded run: synthManager calls with the index of their frame
    instance,             \* MidiManager::instance is not null
    opc,                  \* position of the owning context: "idle", or "join" inside ~MidiManager
    released,             \* AMidiDevice_release was called on the device of the instance
    created,              \* number of pthread_create calls so far
    live,                 \* polling threads created and not yet returned
    objects,              \* MidiManager objects constructed and not yet deleted
    lastCall,             \* the last start / stop call, whether it found an instance, and pc then
    lastWriter,           \* the context that last wrote reading: "owner", "thread", "none"
    fatal,                \* the receive call of this instance has returned a negative result
    sounding,             \* notes the synthesizer was sent a noteOn for and no noteOff since
    engineInit,           \* how SynthManager::SynthManager ended: "ok", or the step that failed
    synth,                \* SynthManager::synth: "valid", "null", "freed" (deleted) or "wild"
    fluid                 \* calls into the fluid synth object made in this iteration, in order

ownerVars == <<instance, opc, released, created, objects, lastCall>>

engineVars == <<engineInit, synth>>

vars == <<pc, reading, sustain, playNotes, sustainNotes, numMessagesReceived, opcode,
          incomingMessage, handed, calls, traces, pre, latch, lastPedal, hist, log,
          instance, opc, released, created, live, objects, lastCall, lastWriter, fatal,
          sounding, engineInit, synth, fluid>>

(***************************************************************************)
(* MidiSpec.h                                                              *)
(***************************************************************************)
kMIDIChanCmd_NoteOff == 8
kMIDIChanCmd_NoteOn == 9
kMIDIChanCmd_KeyPress == 10
kMIDIChanCmd_Control == 11
kMIDIChanCmd_ProgramChange == 12
kMIDIChanCmd_ChannelPress == 13
kMIDIChanCmd_PitchWheel == 14
kMIDIControl_Sustain == 64
kMIDIControl_Sustain_level == 64
kMIDIControl_Reverb == 91
kMIDISysCmdChan == 240

(***************************************************************************)
(* Inputs.  Status bytes cover every value of a byte; the data bytes are   *)
(* chosen so that each plays every role it can: 60 is a plain note and an  *)
(* unhandled controller, 64 is a note and the sustain controller, 91 is a  *)
(* note and the reverb controller; 0, 63 and 64 are a zero velocity and    *)
(* the two sides of the sustain threshold.                                 *)
(***************************************************************************)
StatusBytes == 0 .. 255
Data1Bytes == {60, 64, 91}
Data2Bytes == {0, 63, 64}
Opcodes == {"AMIDI_OPCODE_DATA", "AMIDI_OPCODE_FLUSH"}

Frames ==
    {<<>>} \cup {<<s>> : s \in StatusBytes}
           \cup {<<s, kMIDIControl_Sustain>> : s \in StatusBytes}
           \cup {<<s, a, b>> : s \in StatusBytes, a \in Data1Bytes, b \in Data2Bytes}

\* What one call of AMidiOutputPort_receive can deliver.  A result <= 0 writes
\* no frame; a flush frame carries no bytes.
Receivable ==
    {[res |-> r, opcode |-> "unset", msg |-> <<>>] : r \in {-1, 0}}
    \cup {[res |-> 1, opcode |-> "AMIDI_OPCODE_FLUSH", msg |-> <<>>]}
    \cup {[res |-> 1, opcode |-> "AMIDI_OPCODE_DATA", msg |-> m] : m \in Frames}

(***************************************************************************)
(* Byte arithmetic                                                         *)
(***************************************************************************)
RECURSIVE BitAnd(_, _, _)
BitAnd(a, b, w) ==
    IF w = 0 THEN 0
    ELSE (a % 2) * (b % 2) + 2 * BitAnd(a \div 2, b \div 2, w - 1)

\* ChanCmd comparing the whole status byte: only channel 0 is recognised
ChanCmdOfChannelZero(status) == IF status % 16 = 0 THEN status \div 16 ELSE 0

\* ChanCmd taking the channel nibble for the command
ChanCmdOfLowNibble(status) == BitAnd(status, 15, 8)

\* (status & kMIDISysCmdChan) >> 4
ChanCmd(status) == BitAnd(status, kMIDISysCmdChan, 8) \div 16

(***************************************************************************)
(* Observers                                                               *)
(***************************************************************************)
Call(op, a, b) == [op |-> op, a |-> a, b |-> b]

\* synthManager->noteOn(note, velocity) etc.: append to the calls of st
synthNoteOn(st, note, velocity) ==
    [st EXCEPT !.calls = Append(@, Call("noteOn", note, velocity))]
synthNoteOff(st, note) ==
    [st EXCEPT !.calls = Append(@, Call("noteOff", note, -1))]
synthReverb(st, level) ==
    [st EXCEPT !.calls = Append(@, Call("reverb", level, -1))]
synthSendCC(st, controller, value) ==
    [st EXCEPT !.calls = Append(@, Call("sendCC", controller, value))]

\* sendToCallback(oss): if (!str || str[0] == 0) return; else the callback is invoked
sendToCallback(st, line) ==
    IF line = "" THEN st ELSE [st EXCEPT !.traces = Append(@, line)]

\* iteration order of std::set<int>
RECURSIVE Ascending(_)
Ascending(S) ==
    IF S = {} THEN <<>>
    ELSE LET m == CHOOSE x \in S : \A y \in S : x <= y
         IN <<m>> \o Ascending(S \ {m})

(***************************************************************************)
(* The decoder.  st is the record of the fields a frame can change:        *)
(* [sustain, playNotes, sustainNotes, calls, traces].                      *)
(***************************************************************************)

\* NoteOffCmd without the test of the sustain flag
NoteOffIgnoringPedal(st, note) ==
    LET s1 == synthNoteOff(sendToCallback(st, "Note OFF"), note)
    IN [s1 EXCEPT !.sustainNotes = @ \ {note}, !.playNotes = @ \ {note}]

\* NoteOffCmd without playNotes.erase(note)
NoteOffWithoutErase(st, note) ==
    LET s1 == sendToCallback(st, "Note OFF")
    IN IF ~s1.sustain
       THEN [synthNoteOff(s1, note) EXCEPT !.sustainNotes = @ \ {note}]
       ELSE s1

\* case kMIDIChanCmd_NoteOff
NoteOffCmd(st, note) ==
    LET s1 == sendToCallback(st, "Note OFF")
        s2 == IF ~s1.sustain
              THEN [synthNoteOff(s1, note) EXCEPT !.sustainNotes = @ \ {note}]
              ELSE s1
    IN [s2 EXCEPT !.playNotes = @ \ {note}]

\* NoteOnCmd reading a zero velocity as a release of the key
NoteOnZeroVelocityReleases(st, note, velocity) ==
    LET s1 == sendToCallback(st, "Note ON")
    IN IF velocity = 0
       THEN [synthNoteOff(s1, note) EXCEPT !.playNotes = @ \ {note}]
       ELSE synthNoteOn([s1 EXCEPT !.playNotes = @ \cup {note},
                                   !.sustainNotes = IF s1.sustain THEN @ \cup {note} ELSE @],
                        note, velocity)

\* NoteOnCmd without the insertion into sustainNotes
NoteOnWithoutLatch(st, note, velocity) ==
    synthNoteOn([sendToCallback(st, "Note ON") EXCEPT !.playNotes = @ \cup {note}],
                note, velocity)

\* case kMIDIChanCmd_NoteOn
NoteOnCmd(st, note, velocity) ==
    LET s1 == sendToCallback(st, "Note ON")
        s2 == IF s1.sustain THEN [s1 EXCEPT !.sustainNotes = @ \cup {note}] ELSE s1
        s3 == [s2 EXCEPT !.playNotes = @ \cup {note}]
    IN synthNoteOn(s3, note, velocity)

\* SustainOn without the catch of the held notes
SustainOnWithoutCatch(st, value) ==
    [sendToCallback(st, "Sustain ON") EXCEPT !.sustain = TRUE]

\* value >= kMIDIControl_Sustain_level
SustainOn(st, value) ==
    LET s1 == sendToCallback(st, "Sustain ON")
        s2 == [s1 EXCEPT !.sustain = TRUE]
    IN IF s2.playNotes # {}
       THEN [s2 EXCEPT !.sustainNotes = @ \cup s2.playNotes]
       ELSE s2

\* StopSustained without the membership test in playNotes
RECURSIVE StopEverySustained(_, _)
StopEverySustained(st, ns) ==
    IF ns = <<>> THEN st
    ELSE StopEverySustained(synthNoteOff(st, Head(ns)), Tail(ns))

\* for (const auto n: sustainNotes) if (playNotes.find(n) == playNotes.end()) noteOff(n)
RECURSIVE StopSustained(_, _)
StopSustained(st, ns) ==
    IF ns = <<>> THEN st
    ELSE StopSustained(IF Head(ns) \notin st.playNotes
                       THEN synthNoteOff(st, Head(ns))
                       ELSE st,
                       Tail(ns))

\* SustainOff leaving sustainNotes as it is
SustainOffWithoutClear(st, value) ==
    LET s1 == sendToCallback(st, "Sustain OFF")
        s2 == [s1 EXCEPT !.sustain = FALSE]
    IN StopSustained(s2, Ascending(s2.sustainNotes))

\* SustainOff stopping no note
SustainOffWithoutRelease(st, value) ==
    [sendToCallback(st, "Sustain OFF") EXCEPT !.sustain = FALSE, !.sustainNotes = {}]

\* value < kMIDIControl_Sustain_level
SustainOff(st, value) ==
    LET s1 == sendToCallback(st, "Sustain OFF")
        s2 == [s1 EXCEPT !.sustain = FALSE]
        s3 == StopSustained(s2, Ascending(s2.sustainNotes))
    IN [s3 EXCEPT !.sustainNotes = {}]

\* SustainCmd reading a pressed pedal as a toggle of the flag
SustainCmdToggling(st, value) ==
    IF value >= kMIDIControl_Sustain_level /\ ~st.sustain
    THEN SustainOn(st, value)
    ELSE SustainOff(st, value)

\* case kMIDIControl_Sustain
SustainCmd(st, value) ==
    IF value >= kMIDIControl_Sustain_level
    THEN SustainOn(st, value)
    ELSE SustainOff(st, value)

\* ReverbCmd forwarding the level as a generic control change
ReverbAsControlChange(st, value) ==
    synthSendCC(sendToCallback(st, "Reverb"), kMIDIControl_Reverb, value)

\* case kMIDIControl_Reverb
ReverbCmd(st, value) == synthReverb(sendToCallback(st, "Reverb"), value)

\* OtherControlCmd with the arguments of sendCC exchanged
OtherControlSwapped(st, controller, value) ==
    synthSendCC(sendToCallback(st, "Unparsed command"), value, controller)

\* OtherControlCmd without its trace
OtherControlWithoutTrace(st, controller, value) == synthSendCC(st, controller, value)

\* default of parseMidiCmdControl
OtherControlCmd(st, controller, value) ==
    synthSendCC(sendToCallback(st, "Unparsed command"), controller, value)

parseMidiCmdControl(st, controller, value) ==
    CASE controller = kMIDIControl_Sustain -> SustainCmd(st, value)
      [] controller = kMIDIControl_Reverb -> ReverbCmd(st, value)
      [] OTHER -> OtherControlCmd(st, controller, value)

\* parseMidiData with the length test off by one: a 2-byte frame is decoded,
\* its missing third byte read as 0
ParseMidiDataFromTwoBytes(st, data, numBytes) ==
    IF numBytes < 2 THEN st
    ELSE LET status == BitAnd(data[1], 255, 8)
             note == BitAnd(data[2], 255, 8)
             velocity == IF numBytes >= 3 THEN BitAnd(data[3], 255, 8) ELSE 0
             cmd == ChanCmd(status)
         IN CASE cmd = kMIDIChanCmd_NoteOff -> NoteOffCmd(st, note)
              [] cmd = kMIDIChanCmd_NoteOn -> NoteOnCmd(st, note, velocity)
              [] cmd = kMIDIChanCmd_Control -> parseMidiCmdControl(st, note, velocity)
              [] cmd = kMIDIChanCmd_KeyPress -> sendToCallback(st, "Key Press")
              [] cmd = kMIDIChanCmd_ProgramChange -> sendToCallback(st, "Program Change")
              [] cmd = kMIDIChanCmd_ChannelPress -> sendToCallback(st, "Channel Press")
              [] cmd = kMIDIChanCmd_PitchWheel -> sendToCallback(st, "Pitch Wheel")
              [] OTHER -> sendToCallback(st, "Unparsed")

parseMidiData(st, data, numBytes) ==
    IF numBytes < 3 THEN st
    ELSE LET status == BitAnd(data[1], 255, 8)
             note == BitAnd(data[2], 255, 8)
             velocity == BitAnd(data[3], 255, 8)
             cmd == ChanCmd(status)
         IN CASE cmd = kMIDIChanCmd_NoteOff -> NoteOffCmd(st, note)
              [] cmd = kMIDIChanCmd_NoteOn -> NoteOnCmd(st, note, velocity)
              [] cmd = kMIDIChanCmd_Control -> parseMidiCmdControl(st, note, velocity)
              [] cmd = kMIDIChanCmd_KeyPress -> sendToCallback(st, "Key Press")
              [] cmd = kMIDIChanCmd_ProgramChange -> sendToCallback(st, "Program Change")
              [] cmd = kMIDIChanCmd_ChannelPress -> sendToCallback(st, "Channel Press")
              [] cmd = kMIDIChanCmd_PitchWheel -> sendToCallback(st, "Pitch Wheel")
              [] OTHER -> sendToCallback(st, "Unparsed")

\* PassesFilter without the test of the system status
PassesFilterWithoutSystemTest(res, op, byte0) ==
    /\ res > 0
    /\ op = "AMIDI_OPCODE_DATA"

\* numMessagesReceived > 0 && numBytesReceived >= 0 && opcode == AMIDI_OPCODE_DATA &&
\* (incomingMessage[0] & kMIDISysCmdChan) != kMIDISysCmdChan
PassesFilter(res, op, byte0) ==
    /\ res > 0
    /\ op = "AMIDI_OPCODE_DATA"
    /\ BitAnd(byte0, kMIDISysCmdChan, 8) # kMIDISysCmdChan

(***************************************************************************)
(* History kept beside the program state, for the properties that speak    *)
(* of more than one frame.                                                 *)
(***************************************************************************)
Decoded(msg) == Len(msg) >= 3
IsNoteOffFrame(msg) == Decoded(msg) /\ msg[1] \div 16 = 8
IsNoteOnFrame(msg) == Decoded(msg) /\ msg[1] \div 16 = 9
IsControlFrame(msg) == Decoded(msg) /\ msg[1] \div 16 = 11
IsPedalDown(msg) == IsControlFrame(msg) /\ msg[2] = 64 /\ msg[3] >= 64
IsPedalUp(msg) == IsControlFrame(msg) /\ msg[2] = 64 /\ msg[3] < 64

PedalKind(msg) ==
    IF IsPedalDown(msg) THEN "down" ELSE IF IsPedalUp(msg) THEN "up" ELSE "other"

\* For note n: "both" while n is in playNotes and sustainNotes; afterwards "off"
\* once a NoteOff(n) frame was decoded, "up" once a pedal-up frame was decoded,
\* and "idle" again when the second of the two was decoded.
LatchStep(l, msg, play, sust) ==
    [n \in DOMAIN l |->
        IF n \in play /\ n \in sust THEN "both"
        ELSE LET off == IsNoteOffFrame(msg) /\ msg[2] = n
                 up == IsPedalUp(msg)
             IN CASE l[n] = "both" -> IF off THEN "off" ELSE IF up THEN "up" ELSE "lost"
                  [] l[n] = "off" -> IF up THEN "idle" ELSE "off"
                  [] l[n] = "up" -> IF off THEN "idle" ELSE "up"
                  [] OTHER -> l[n]]

Snapshot ==
    [sustain |-> sustain, playNotes |-> playNotes, sustainNotes |-> sustainNotes,
     latch |-> latch, lastPedal |-> lastPedal]

(***************************************************************************)
(* The polling thread                                                      *)
(***************************************************************************)
Init ==
    /\ pc = "start"
    /\ reading = FALSE
    /\ sustain = FALSE
    /\ playNotes = {}
    /\ sustainNotes = {}
    /\ numMessagesReceived = 0
    /\ opcode = "unset"
    /\ incomingMessage = <<>>
    /\ handed = FALSE
    /\ calls = <<>>
    /\ traces = <<>>
    /\ latch = [n \in Data1Bytes |-> "idle"]
    /\ lastPedal = "none"
    /\ pre = [sustain |-> FALSE, playNotes |-> {}, sustainNotes |-> {},
              latch |-> [n \in Data1Bytes |-> "idle"], lastPedal |-> "none"]
    /\ hist = <<>>
    /\ log = <<>>
    /\ instance = TRUE
    /\ opc = "idle"
    /\ released = FALSE
    /\ created = 1
    /\ live = 1
    /\ objects = 1
    /\ lastCall = [op |-> "start", had |-> FALSE, pc |-> "none"]
    /\ lastWriter = "owner"
    /\ fatal = FALSE
    /\ sounding = {}
    /\ engineInit = "ok"
    /\ synth = "valid"
    /\ fluid = <<>>

\* manager->reading = true
ThreadEntry ==
    /\ pc = "start"
    /\ reading' = TRUE
    /\ lastWriter' = "thread"
    /\ pc' = "while"
    /\ UNCHANGED <<sustain, playNotes, sustainNotes, numMessagesReceived, opcode,
                   incomingMessage, handed, calls, traces, pre, latch, lastPedal, hist, log>>
    /\ UNCHANGED <<ownerVars, live, fatal, sounding, engineVars, fluid>>

\* while (manager->reading)
LoopTest ==
    /\ pc = "while"
    /\ pc' = IF reading THEN "poll" ELSE "exit"
    /\ live' = IF reading THEN live ELSE live - 1
    /\ UNCHANGED <<reading, sustain, playNotes, sustainNotes, numMessagesReceived, opcode,
                   incomingMessage, handed, calls, traces, pre, latch, lastPedal, hist, log>>
    /\ UNCHANGED <<ownerVars, lastWriter, fatal, sounding, engineVars, fluid>>

\* SynthManager::noteOn / noteOff / reverb / sendCC: if (synth == nullptr)
\* return; otherwise the call goes into the fluid synth object synth points to
RECURSIVE Forward(_, _)
Forward(sy, cs) ==
    IF cs = <<>> \/ sy = "null" THEN <<>>
    ELSE <<Head(cs)>> \o Forward(sy, Tail(cs))

\* The notes left sounding by the calls cs on a synthesizer sounding snd
RECURSIVE SoundingAfter(_, _)
SoundingAfter(snd, cs) ==
    IF cs = <<>> THEN snd
    ELSE SoundingAfter(CASE Head(cs).op = "noteOn" -> snd \cup {Head(cs).a}
                         [] Head(cs).op = "noteOff" -> snd \ {Head(cs).a}
                         [] OTHER -> snd,
                       Tail(cs))

\* The failure test left reading as it was
AfterReceiveRetrying(res, rd) == rd

\* if (numMessagesReceived < 0) manager->reading = false;
AfterReceive(res, rd) == IF res < 0 THEN FALSE ELSE rd

\* One loop body up to the usleep: receive, the failure test, the filter and
\* the decoder.  stale is what incomingMessage[0] holds when no byte was written.
PollBody(rx, stale) ==
    LET byte0 == IF Len(rx.msg) > 0 THEN rx.msg[1] ELSE stale
        h == PassesFilter(rx.res, rx.opcode, byte0)
        st0 == [sustain |-> sustain, playNotes |-> playNotes,
                sustainNotes |-> sustainNotes, calls |-> <<>>, traces |-> <<>>]
        st1 == IF h THEN parseMidiData(st0, rx.msg, Len(rx.msg)) ELSE st0
        dec == h /\ Decoded(rx.msg)
    IN /\ pc = "poll"
       /\ numMessagesReceived' = rx.res
       /\ opcode' = rx.opcode
       /\ incomingMessage' = rx.msg
       /\ reading' = AfterReceive(rx.res, reading)
       /\ lastWriter' = IF rx.res < 0 THEN "thread" ELSE lastWriter
       /\ fatal' = (fatal \/ rx.res < 0)
       /\ handed' = h
       /\ sustain' = st1.sustain
       /\ playNotes' = st1.playNotes
       /\ sustainNotes' = st1.sustainNotes
       /\ calls' = st1.calls
       /\ fluid' = Forward(synth, st1.calls)
       /\ sounding' = SoundingAfter(sounding, st1.calls)
       /\ traces' = st1.traces
       /\ pre' = Snapshot
       /\ latch' = IF dec THEN LatchStep(latch, rx.msg, st1.playNotes, st1.sustainNotes)
                   ELSE latch
       /\ lastPedal' = IF dec THEN PedalKind(rx.msg) ELSE lastPedal
       /\ pc' = "sleep"

Poll ==
    /\ pc = "poll"
    /\ \E rx \in Receivable :
          \E stale \in (IF rx.res > 0 /\ Len(rx.msg) = 0 THEN StatusBytes ELSE {0}) :
              PollBody(rx, stale)
    /\ UNCHANGED <<hist, log, ownerVars, live, engineVars>>

\* usleep(500); the locals of the iteration are dead from here on
Sleep ==
    /\ pc = "sleep"
    /\ pc' = "while"
    /\ numMessagesReceived' = 0
    /\ opcode' = "unset"
    /\ incomingMessage' = <<>>
    /\ handed' = FALSE
    /\ calls' = <<>>
    /\ traces' = <<>>
    /\ pre' = Snapshot
    /\ UNCHANGED <<reading, sustain, playNotes, sustainNotes, latch, lastPedal, hist, log>>
    /\ fluid' = <<>>
    /\ UNCHANGED <<ownerVars, live, lastWriter, fatal, sounding, engineVars>>

Next == ThreadEntry \/ LoopTest \/ Poll \/ Sleep

Spec == Init /\ [][Next]_vars

(***************************************************************************)
(* The recorded run: the first MaxHist frames an instance decodes, each    *)
(* with the state it left and the synthesizer calls it made.               *)
(***************************************************************************)
MaxHist == 4
RecStatusBytes == {128, 144, 176}
RecData1Bytes == {60, 64}
RecData2Bytes == {0, 64}
RecFrames == {<<s, a, b>> : s \in RecStatusBytes, a \in RecData1Bytes, b \in RecData2Bytes}

RECURSIVE Stamp(_, _)
Stamp(cs, k) ==
    IF cs = <<>> THEN <<>>
    ELSE <<[frame |-> k, call |-> Head(cs)]>> \o Stamp(Tail(cs), k)

PollRec ==
    /\ pc = "poll"
    /\ Len(hist) < MaxHist
    /\ \E m \in RecFrames :
          /\ PollBody([res |-> 1, opcode |-> "AMIDI_OPCODE_DATA", msg |-> m], 0)
          /\ hist' = Append(hist, [msg |-> m, sustain |-> sustain',
                                   playNotes |-> playNotes',
                                   sustainNotes |-> sustainNotes'])
          /\ log' = log \o Stamp(calls', Len(hist) + 1)
    /\ UNCHANGED <<ownerVars, live, engineVars>>

NextRec == ThreadEntry \/ LoopTest \/ PollRec \/ Sleep

SpecRec == Init /\ [][NextRec]_vars

(***************************************************************************)
(* The lifecycle: the owning context calls start (getInstance) and stop    *)
(* (freeInstance) at any time while the polling thread runs.  The frames   *)
(* are one note and the pedal.                                             *)
(***************************************************************************)
MaxStarts == 2
LifeFrames == {<<144, 60, 64>>, <<128, 60, 0>>, <<176, 64, 64>>, <<176, 64, 0>>}
LifeReceivable ==
    {[res |-> r, opcode |-> "unset", msg |-> <<>>] : r \in {-1, 0}}
    \cup {[res |-> 1, opcode |-> "AMIDI_OPCODE_DATA", msg |-> m] : m \in LifeFrames}

InitLife ==
    /\ pc = "none"
    /\ reading = FALSE
    /\ sustain = FALSE
    /\ playNotes = {}
    /\ sustainNotes = {}
    /\ numMessagesReceived = 0
    /\ opcode = "unset"
    /\ incomingMessage = <<>>
    /\ handed = FALSE
    /\ calls = <<>>
    /\ traces = <<>>
    /\ latch = [n \in Data1Bytes |-> "idle"]
    /\ lastPedal = "none"
    /\ pre = [sustain |-> FALSE, playNotes |-> {}, sustainNotes |-> {},
              latch |-> [n \in Data1Bytes |-> "idle"], lastPedal |-> "none"]
    /\ hist = <<>>
    /\ log = <<>>
    /\ instance = FALSE
    /\ opc = "idle"
    /\ released = FALSE
    /\ created = 0
    /\ live = 0
    /\ objects = 0
    /\ lastCall = [op |-> "none", had |-> FALSE, pc |-> "none"]
    /\ lastWriter = "none"
    /\ fatal = FALSE
    /\ sounding = {}
    /\ engineInit = "ok"
    /\ synth = "valid"
    /\ fluid = <<>>

\* getInstance constructing whether or not an instance exists
AlwaysConstruct(inst) == TRUE

\* if (!instance)
NeedsInstance(inst) == ~inst

\* pthread_join returning without waiting for the thread
JoinWithoutWaiting(p) == TRUE

\* pthread_join(readThread, nullptr) returns once the thread has returned
ThreadReturned(p) == p = "exit"

\* new MidiManager(...): the members are initialised and the thread is created
Construct ==
    /\ reading' = FALSE
    /\ lastWriter' = "owner"
    /\ sustain' = FALSE
    /\ playNotes' = {}
    /\ sustainNotes' = {}
    /\ numMessagesReceived' = 0
    /\ opcode' = "unset"
    /\ incomingMessage' = <<>>
    /\ handed' = FALSE
    /\ calls' = <<>>
    /\ traces' = <<>>
    /\ latch' = [n \in Data1Bytes |-> "idle"]
    /\ lastPedal' = "none"
    /\ pre' = [sustain |-> FALSE, playNotes |-> {}, sustainNotes |-> {},
               latch |-> [n \in Data1Bytes |-> "idle"], lastPedal |-> "none"]
    /\ fatal' = FALSE
    /\ released' = FALSE
    /\ pc' = "start"
    /\ created' = created + 1
    /\ live' = live + 1
    /\ objects' = objects + 1

\* start: MidiManager::getInstance
getInstance ==
    /\ opc = "idle"
    /\ lastCall' = [op |-> "start", had |-> instance, pc |-> pc]
    /\ IF NeedsInstance(instance)
       THEN /\ created < MaxStarts
            /\ Construct
            /\ instance' = TRUE
            /\ fluid' = <<>>
            /\ UNCHANGED <<opc, hist, log, sounding, engineVars>>
       ELSE UNCHANGED <<pc, reading, sustain, playNotes, sustainNotes,
                        numMessagesReceived, opcode, incomingMessage, handed, calls,
                        traces, pre, latch, lastPedal, hist, log, instance, opc,
                        released, created, live, objects, lastWriter, fatal,
                        sounding, engineInit, synth, fluid>>

\* stop: MidiManager::freeInstance up to the pthread_join of the destructor
freeInstance ==
    /\ opc = "idle"
    /\ lastCall' = [op |-> "stop", had |-> instance, pc |-> pc]
    /\ IF instance
       THEN /\ reading' = FALSE
            /\ lastWriter' = "owner"
            /\ opc' = "join"
       ELSE UNCHANGED <<reading, lastWriter, opc>>
    /\ UNCHANGED <<pc, sustain, playNotes, sustainNotes, numMessagesReceived, opcode,
                   incomingMessage, handed, calls, traces, pre, latch, lastPedal, hist,
                   log, instance, released, created, live, objects, fatal,
                   sounding, engineInit, synth, fluid>>

\* pthread_join returns; AMidiDevice_release; the object is deleted; instance = nullptr
Join ==
    /\ opc = "join"
    /\ ThreadReturned(pc)
    /\ released' = TRUE
    /\ objects' = objects - 1
    /\ instance' = FALSE
    /\ opc' = "idle"
    /\ UNCHANGED <<pc, reading, sustain, playNotes, sustainNotes, numMessagesReceived,
                   opcode, incomingMessage, handed, calls, traces, pre, latch, lastPedal,
                   hist, log, created, live, lastCall, lastWriter, fatal,
                   sounding, engineInit, synth, fluid>>

PollLife ==
    /\ pc = "poll"
    /\ \E rx \in LifeReceivable : PollBody(rx, 0)
    /\ UNCHANGED <<hist, log, ownerVars, live, engineVars>>

NextLife == getInstance \/ freeInstance \/ Join \/ ThreadEntry \/ LoopTest \/ PollLife \/ Sleep

SpecLife == InitLife /\ [][NextLife]_vars

\* Both contexts are scheduled: a step of the thread or the return of the join
\* that can be taken is taken.  The owner need not call start or stop.
SpecLifeFair ==
    /\ SpecLife
    /\ WF_vars(ThreadEntry)
    /\ WF_vars(LoopTest)
    /\ WF_vars(PollLife)
    /\ WF_vars(Sleep)
    /\ WF_vars(Join)

(***************************************************************************)
(* The engine: SynthManager is constructed with any outcome of its three   *)
(* creation steps, then the polling thread sends it the calls of the       *)
(* frames.                                                                 *)
(***************************************************************************)
\* SynthManager::SynthManager.  When new_fluid_settings fails synth is never
\* assigned: it holds garbage, null or not.  When new_fluid_synth fails synth
\* is null.  When new_fluid_audio_driver fails the synth is deleted and the
\* pointer keeps its value.
SynthManagerCtor(settingsOk, synthOk, driverOk, garbage) ==
    IF ~settingsOk THEN [init |-> "settings", synth |-> garbage]
    ELSE IF ~synthOk THEN [init |-> "synth", synth |-> "null"]
    ELSE IF ~driverOk THEN [init |-> "driver", synth |-> "freed"]
    ELSE [init |-> "ok", synth |-> "valid"]

EngineFrames == LifeFrames \cup {<<176, 91, 64>>, <<176, 60, 63>>}

InitEngine ==
    /\ pc = "start"
    /\ reading = FALSE
    /\ sustain = FALSE
    /\ playNotes = {}
    /\ sustainNotes = {}
    /\ numMessagesReceived = 0
    /\ opcode = "unset"
    /\ incomingMessage = <<>>
    /\ handed = FALSE
    /\ calls = <<>>
    /\ traces = <<>>
    /\ latch = [n \in Data1Bytes |-> "idle"]
    /\ lastPedal = "none"
    /\ pre = [sustain |-> FALSE, playNotes |-> {}, sustainNotes |-> {},
              latch |-> [n \in Data1Bytes |-> "idle"], lastPedal |-> "none"]
    /\ hist = <<>>
    /\ log = <<>>
    /\ instance = TRUE
    /\ opc = "idle"
    /\ released = FALSE
    /\ created = 1
    /\ live = 1
    /\ objects = 1
    /\ lastCall = [op |-> "start", had |-> FALSE, pc |-> "none"]
    /\ lastWriter = "owner"
    /\ fatal = FALSE
    /\ sounding = {}
    /\ fluid = <<>>
    /\ \E settingsOk \in BOOLEAN, synthOk \in BOOLEAN, driverOk \in BOOLEAN,
          garbage \in {"null", "wild"} :
          LET made == SynthManagerCtor(settingsOk, synthOk, driverOk, garbage)
          IN /\ engineInit = made.init
             /\ synth = made.synth

PollEngine ==
    /\ pc = "poll"
    /\ \E m \in EngineFrames :
          PollBody([res |-> 1, opcode |-> "AMIDI_OPCODE_DATA", msg |-> m], 0)
    /\ UNCHANGED <<hist, log, ownerVars, live, engineVars>>

NextEngine == ThreadEntry \/ LoopTest \/ PollEngine \/ Sleep

SpecEngine == InitEngine /\ [][NextEngine]_vars

(***************************************************************************)
(* Properties.  A frame has been processed when the thread stands at the   *)
(* usleep with handed true and a frame of at least 3 bytes: pre is the     *)
(* state before it, calls and traces are what it sent.                     *)
(***************************************************************************)
Processed == pc = "sleep" /\ handed /\ Decoded(incomingMessage)
Data1 == incomingMessage[2]
Data2 == incomingMessage[3]
Count(cs, c) == Cardinality({i \in DOMAIN cs : cs[i] = c})
NoNoteOff(cs) == \A i \in DOMAIN cs : cs[i].op # "noteOff"
SameState ==
    /\ sustain = pre.sustain
    /\ playNotes = pre.playNotes
    /\ sustainNotes = pre.sustainNotes

\* C1: a pedal-up frame (controller 64, value < 64) sends note-off exactly once
\* for each note of Sustained Notes that is not in Playing Notes and for no
\* other note, empties Sustained Notes, clears the flag, keeps Playing Notes.
C1_PedalUpReconciles ==
    (Processed /\ IsPedalUp(incomingMessage)) =>
        /\ \A n \in pre.sustainNotes \ pre.playNotes :
              Count(calls, Call("noteOff", n, -1)) = 1
        /\ \A i \in DOMAIN calls :
              /\ calls[i].op = "noteOff"
              /\ calls[i].a \in pre.sustainNotes \ pre.playNotes
        /\ sustainNotes = {}
        /\ sustain = FALSE
        /\ playNotes = pre.playNotes

C1_Witness ==
    /\ Processed /\ IsPedalUp(incomingMessage)
    /\ pre.sustainNotes \ pre.playNotes # {}
    /\ pre.sustainNotes \cap pre.playNotes # {}
    /\ Len(calls) = Cardinality(pre.sustainNotes \ pre.playNotes)

\* C2: a pedal-down frame (controller 64, value >= 64) sets the flag, makes
\* Sustained Notes the union of its old value and Playing Notes, keeps Playing
\* Notes and makes no synthesizer call.
C2_PedalDownCatches ==
    (Processed /\ IsPedalDown(incomingMessage)) =>
        /\ sustain = TRUE
        /\ sustainNotes = pre.sustainNotes \cup pre.playNotes
        /\ playNotes = pre.playNotes
        /\ calls = <<>>

C2_Witness ==
    /\ Processed /\ IsPedalDown(incomingMessage)
    /\ ~pre.sustain
    /\ pre.playNotes # {}
    /\ sustainNotes = pre.playNotes

\* C4 as stated: a NoteOff(n) frame with the flag set sends no note-off, removes
\* n from Playing Notes and leaves n a member of Sustained Notes, for every n.
C4_AsStated ==
    (Processed /\ IsNoteOffFrame(incomingMessage) /\ pre.sustain) =>
        /\ NoNoteOff(calls)
        /\ Data1 \notin playNotes
        /\ Data1 \in sustainNotes

\* C4 amended: a NoteOff(n) frame with the flag set makes no synthesizer call,
\* removes n from Playing Notes and leaves Sustained Notes as it was (nothing is
\* added); n is in Sustained Notes afterwards whenever it was held or sustained.
C4_NoteOffSustained ==
    (Processed /\ IsNoteOffFrame(incomingMessage) /\ pre.sustain) =>
        /\ calls = <<>>
        /\ playNotes = pre.playNotes \ {Data1}
        /\ sustainNotes = pre.sustainNotes
        /\ sustain = TRUE
        /\ (Data1 \in pre.playNotes \cup pre.sustainNotes => Data1 \in sustainNotes)

C4_Witness ==
    /\ Processed /\ IsNoteOffFrame(incomingMessage) /\ pre.sustain
    /\ Data1 \in pre.playNotes
    /\ Data1 \in sustainNotes /\ Data1 \notin playNotes

\* C5: a NoteOn(n, v) frame, for every n and v (0 included), adds n to Playing
\* Notes, adds n to Sustained Notes exactly when the flag is set, keeps the flag,
\* and sends exactly one note-on(n, v), whether or not n was already playing.
C5_NoteOn ==
    (Processed /\ IsNoteOnFrame(incomingMessage)) =>
        /\ playNotes = pre.playNotes \cup {Data1}
        /\ sustainNotes = IF pre.sustain THEN pre.sustainNotes \cup {Data1}
                          ELSE pre.sustainNotes
        /\ sustain = pre.sustain
        /\ calls = <<Call("noteOn", Data1, Data2)>>

C5_Witness ==
    /\ Processed /\ IsNoteOnFrame(incomingMessage)
    /\ Data2 = 0
    /\ Data1 \in pre.playNotes
    /\ pre.sustain
    /\ calls = <<Call("noteOn", Data1, 0)>>

(***************************************************************************)
(* Properties of the recorded run                                          *)
(***************************************************************************)
LogUpTo(k) == SelectSeq(log, LAMBDA e : e.frame <= k)
LogAt(k) == SelectSeq(log, LAMBDA e : e.frame = k)
Sent(k, c) == [frame |-> k, call |-> c]
NoteOf(k) == hist[k].msg[2]

RoundTripRun ==
    /\ Len(hist) >= 2
    /\ IsNoteOnFrame(hist[1].msg)
    /\ IsNoteOffFrame(hist[2].msg)
    /\ NoteOf(2) = NoteOf(1)

\* C3: a NoteOff(n) frame with the flag clear sends exactly one note-off(n) and
\* leaves n in neither set; from the initial state NoteOn(n, v) then NoteOff(n)
\* sends exactly one note-on(n, v), then exactly one note-off(n), and leaves
\* both sets empty.
C3_NoteOffUnsustained ==
    /\ (Processed /\ IsNoteOffFrame(incomingMessage) /\ ~pre.sustain) =>
          /\ Count(calls, Call("noteOff", Data1, -1)) = 1
          /\ Len(calls) = 1
          /\ Data1 \notin playNotes
          /\ Data1 \notin sustainNotes
    /\ RoundTripRun =>
          /\ LogUpTo(2) = <<Sent(1, Call("noteOn", NoteOf(1), hist[1].msg[3])),
                            Sent(2, Call("noteOff", NoteOf(1), -1))>>
          /\ hist[2].playNotes = {}
          /\ hist[2].sustainNotes = {}

C3_Witness ==
    /\ RoundTripRun /\ Len(hist) = 2
    /\ Processed /\ IsNoteOffFrame(incomingMessage) /\ ~pre.sustain
    /\ Data1 \in pre.playNotes
    /\ Len(log) = 2

SustainCatchRun(n) ==
    /\ Len(hist) >= 4
    /\ IsNoteOnFrame(hist[1].msg) /\ NoteOf(1) = n
    /\ IsPedalDown(hist[2].msg)
    /\ IsNoteOffFrame(hist[3].msg) /\ NoteOf(3) = n
    /\ IsPedalUp(hist[4].msg)

\* C6: from the initial state NoteOn(n), pedal-down, NoteOff(n), pedal-up sends
\* note-on(n) once, no note-off before the pedal-up frame, exactly one
\* note-off(n) at the pedal-up frame, and ends with both sets empty.
C6_SustainCatch ==
    \A n \in RecData1Bytes :
        SustainCatchRun(n) =>
            /\ LogUpTo(4) = <<Sent(1, Call("noteOn", n, hist[1].msg[3])),
                              Sent(4, Call("noteOff", n, -1))>>
            /\ hist[4].playNotes = {}
            /\ hist[4].sustainNotes = {}

C6_Witness ==
    /\ Len(hist) = 4
    /\ \E n \in RecData1Bytes : SustainCatchRun(n)
    /\ playNotes = {} /\ sustainNotes = {}

HeldRun(n) ==
    /\ Len(hist) >= 3
    /\ IsNoteOnFrame(hist[1].msg) /\ NoteOf(1) = n
    /\ IsPedalDown(hist[2].msg)
    /\ IsPedalUp(hist[3].msg)

\* C7: from the initial state NoteOn(n), pedal-down, pedal-up sends no note-off
\* and leaves n in Playing Notes; a NoteOff(n) that follows sends exactly one
\* note-off(n).
C7_HeldThroughRelease ==
    \A n \in RecData1Bytes :
        HeldRun(n) =>
            /\ \A i \in DOMAIN LogUpTo(3) : LogUpTo(3)[i].call.op # "noteOff"
            /\ n \in hist[3].playNotes
            /\ (Len(hist) >= 4 /\ IsNoteOffFrame(hist[4].msg) /\ NoteOf(4) = n) =>
                  LogAt(4) = <<Sent(4, Call("noteOff", n, -1))>>

C7_Witness ==
    /\ Len(hist) = 4
    /\ \E n \in RecData1Bytes :
          HeldRun(n) /\ IsNoteOffFrame(hist[4].msg) /\ NoteOf(4) = n
    /\ Len(log) = 2

(***************************************************************************)
(* Properties of every run                                                 *)
(***************************************************************************)

\* C8: once a note n is in both sets, no note-off(n) is sent until both a
\* NoteOff(n) frame and a pedal-up frame have been decoded; counted from the
\* last moment n was in both sets, the second of the two sends the note-off,
\* exactly once, and the first sends none.
C8_NoCutNotes ==
    Processed =>
        \A n \in Data1Bytes :
            LET offs == Count(calls, Call("noteOff", n, -1))
                off == IsNoteOffFrame(incomingMessage) /\ Data1 = n
                up == IsPedalUp(incomingMessage)
            IN /\ latch[n] # "lost"
               /\ pre.latch[n] = "both" => offs = 0
               /\ pre.latch[n] = "off" => offs = (IF up THEN 1 ELSE 0)
               /\ pre.latch[n] = "up" => offs = (IF off THEN 1 ELSE 0)

C8_Witness ==
    /\ Processed
    /\ \E n \in Data1Bytes :
          /\ pre.latch[n] = "up"
          /\ IsNoteOffFrame(incomingMessage) /\ Data1 = n
          /\ calls = <<Call("noteOff", n, -1)>>
          /\ \E m \in Data1Bytes : m # n /\ pre.latch[m] = "up" /\ m \in playNotes

\* C9: a pedal-down frame right after a pedal-down frame changes none of the
\* three fields and makes no synthesizer call; a pedal-up frame right after a
\* pedal-up frame sends no note-off and changes none of the three fields.
C9_RedundantPedal ==
    /\ (Processed /\ pre.lastPedal = "down" /\ IsPedalDown(incomingMessage)) =>
          SameState /\ calls = <<>>
    /\ (Processed /\ pre.lastPedal = "up" /\ IsPedalUp(incomingMessage)) =>
          SameState /\ NoNoteOff(calls)

C9_Witness ==
    /\ Processed /\ pre.lastPedal = "down" /\ IsPedalDown(incomingMessage)
    /\ playNotes # {}
    /\ sustainNotes \ playNotes # {}

KindOfNibble(nib) ==
    CASE nib = 8 -> "NoteOff"
      [] nib = 9 -> "NoteOn"
      [] nib = 10 -> "KeyPressure"
      [] nib = 11 -> "Control"
      [] nib = 12 -> "ProgramChange"
      [] nib = 13 -> "ChannelPressure"
      [] nib = 14 -> "PitchBend"
      [] OTHER -> "Unparsed"

KindOfTrace(line) ==
    CASE line = "Note OFF" -> "NoteOff"
      [] line = "Note ON" -> "NoteOn"
      [] line = "Key Press" -> "KeyPressure"
      [] line \in {"Sustain ON", "Sustain OFF", "Reverb", "Unparsed command"} -> "Control"
      [] line = "Program Change" -> "ProgramChange"
      [] line = "Channel Press" -> "ChannelPressure"
      [] line = "Pitch Wheel" -> "PitchBend"
      [] line = "Unparsed" -> "Unparsed"

Fields(s, p, u) ==
    [sustain |-> s, playNotes |-> p, sustainNotes |-> u, calls |-> <<>>, traces |-> <<>>]

\* What the decoder does to st with frame <<status, a, b>> is what it does
\* with the channel bits of status cleared, and its kind is the table's.
ChannelBlind(st, status, a, b) ==
    LET r == parseMidiData(st, <<status, a, b>>, 3)
    IN /\ Len(r.traces) = 1
       /\ KindOfTrace(r.traces[1]) = KindOfNibble(status \div 16)
       /\ r = parseMidiData(st, <<16 * (status \div 16), a, b>>, 3)

\* C10: for a frame of at least 3 bytes the kind of command depends only on
\* bits 4-7 of byte 0: 0x8..0xE are NoteOff, NoteOn, KeyPressure, Control,
\* ProgramChange, ChannelPressure, PitchBend, every other nibble is Unparsed,
\* and status bytes that differ in bits 0-3 only have the same effects.
C10_DecoderClassification ==
    /\ Processed =>
          /\ Len(traces) = 1
          /\ KindOfTrace(traces[1]) = KindOfNibble(incomingMessage[1] \div 16)
          /\ LET r == parseMidiData(Fields(pre.sustain, pre.playNotes, pre.sustainNotes),
                                    <<16 * (incomingMessage[1] \div 16), Data1, Data2>>, 3)
             IN r = [sustain |-> sustain, playNotes |-> playNotes,
                     sustainNotes |-> sustainNotes, calls |-> calls, traces |-> traces]
    /\ pc = "while" =>
          \A status \in StatusBytes, a \in Data1Bytes, b \in Data2Bytes :
              ChannelBlind(Fields(sustain, playNotes, sustainNotes), status, a, b)

C10_Witness ==
    /\ Processed
    /\ incomingMessage[1] = 155
    /\ pre.sustain
    /\ calls = <<Call("noteOn", Data1, Data2)>>
    /\ Data1 \in sustainNotes \ pre.sustainNotes

\* C11: a frame of 0, 1 or 2 bytes handed to the decoder produces no trace and
\* no synthesizer call and changes none of the three fields, whatever its
\* status byte.
C11_ShortFramesDropped ==
    (pc = "sleep" /\ handed /\ Len(incomingMessage) < 3) =>
        /\ traces = <<>>
        /\ calls = <<>>
        /\ SameState

C11_Witness ==
    /\ pc = "sleep" /\ handed
    /\ incomingMessage = <<176, 64>>
    /\ pre.sustain /\ pre.sustainNotes \ pre.playNotes # {}
    /\ sustain /\ sustainNotes = pre.sustainNotes

\* C12: a Control(91, v) frame makes exactly one reverb(v) call and no other
\* synthesizer call and changes none of the three fields, for every v.
C12_Reverb ==
    (Processed /\ IsControlFrame(incomingMessage) /\ Data1 = 91) =>
        /\ calls = <<Call("reverb", Data2, -1)>>
        /\ SameState

C12_Witness ==
    /\ Processed /\ IsControlFrame(incomingMessage) /\ Data1 = 91 /\ Data2 = 64
    /\ ~pre.sustain /\ pre.playNotes # {}
    /\ calls = <<Call("reverb", 64, -1)>>

\* C13: a Control(c, v) frame with c other than 64 and 91 makes exactly one
\* sendCC(c, v) call, c and v as received, and changes none of the three
\* fields; a Control frame for 64 or 91 makes no sendCC call.
C13_ControllerPassthrough ==
    /\ (Processed /\ IsControlFrame(incomingMessage) /\ Data1 \notin {64, 91}) =>
          /\ calls = <<Call("sendCC", Data1, Data2)>>
          /\ SameState
    /\ (Processed /\ IsControlFrame(incomingMessage) /\ Data1 \in {64, 91}) =>
          \A i \in DOMAIN calls : calls[i].op # "sendCC"

C13_Witness ==
    /\ Processed /\ IsControlFrame(incomingMessage)
    /\ Data1 = 60 /\ Data2 = 63
    /\ pre.sustain /\ pre.sustainNotes # {}
    /\ calls = <<Call("sendCC", 60, 63)>>

\* C15: a received frame is handed to the decoder exactly when the result is
\* positive, the opcode is the data opcode and byte 0 has not all of bits 4-7
\* set (for a frame of no bytes byte 0 is what the buffer held before, so only
\* the first two conditions are certain); a frame that is not handed over
\* leaves no trace, makes no synthesizer call and changes none of the fields.
C15_LoopFilter ==
    pc = "sleep" =>
        /\ handed => (numMessagesReceived > 0 /\ opcode = "AMIDI_OPCODE_DATA")
        /\ Len(incomingMessage) >= 1 =>
              (handed <=> /\ numMessagesReceived > 0
                          /\ opcode = "AMIDI_OPCODE_DATA"
                          /\ incomingMessage[1] \div 16 # 15)
        /\ ~handed => (traces = <<>> /\ calls = <<>> /\ SameState)

C15_Witness ==
    /\ pc = "sleep" /\ ~handed
    /\ numMessagesReceived > 0 /\ opcode = "AMIDI_OPCODE_DATA"
    /\ incomingMessage = <<240, 64, 0>>
    /\ sustain /\ sustainNotes \ playNotes # {}

LineOfFrame(msg) ==
    LET nib == msg[1] \div 16
    IN CASE nib = 8 -> "Note OFF"
         [] nib = 9 -> "Note ON"
         [] nib = 10 -> "Key Press"
         [] nib = 11 /\ msg[2] = 64 /\ msg[3] >= 64 -> "Sustain ON"
         [] nib = 11 /\ msg[2] = 64 /\ msg[3] < 64 -> "Sustain OFF"
         [] nib = 11 /\ msg[2] = 91 -> "Reverb"
         [] nib = 11 /\ msg[2] \notin {64, 91} -> "Unparsed command"
         [] nib = 12 -> "Program Change"
         [] nib = 13 -> "Channel Press"
         [] nib = 14 -> "Pitch Wheel"
         [] OTHER -> "Unparsed"

\* C16: every frame of at least 3 bytes handed to the decoder produces exactly
\* one trace, the one of its branch: NoteOff, NoteOn, sustain on, sustain off,
\* reverb, other controller, KeyPressure, ProgramChange, ChannelPressure,
\* PitchBend, Unparsed.
C16_TraceOnEveryBranch ==
    Processed => traces = <<LineOfFrame(incomingMessage)>>

C16_Witness ==
    /\ Processed
    /\ incomingMessage[1] = 5
    /\ traces = <<"Unparsed">>
    /\ calls = <<>>

\* C14: once the receive call of an instance has returned a negative result,
\* that iteration decodes no frame (no trace, no call, no field changed), the
\* loop exits and never polls again: reading stays false and the thread is
\* at the usleep of that iteration, at the loop test or past the loop.
C14_FatalResultTerminal ==
    /\ (pc = "sleep" /\ numMessagesReceived < 0) =>
          (~handed /\ traces = <<>> /\ calls = <<>> /\ SameState)
    /\ fatal =>
          /\ ~reading
          /\ pc \in {"sleep", "while", "exit"}
          /\ pc = "sleep" => numMessagesReceived < 0

C14_Witness ==
    /\ fatal /\ pc = "exit"
    /\ instance /\ opc = "idle"
    /\ playNotes # {} /\ sustain

exceptLastCall ==
    <<pc, reading, sustain, playNotes, sustainNotes, numMessagesReceived, opcode,
      incomingMessage, handed, calls, traces, pre, latch, lastPedal, hist, log,
      instance, opc, released, created, live, objects, lastWriter, fatal,
      sounding, engineInit, synth, fluid>>

\* C17: under any sequence of start and stop calls there is at most one
\* instance and at most one polling thread; a start that finds an instance
\* keeps it and creates no thread, and a stop that finds no instance (a second
\* stop after a stop included) changes nothing.
C17_LifecycleIdempotence ==
    [][/\ objects' <= 1 /\ live' <= 1
       /\ (objects' = 1) = instance'
       /\ (lastCall' # lastCall /\ lastCall'.op = "start" /\ lastCall'.had) =>
             (instance' /\ UNCHANGED exceptLastCall)
       /\ (lastCall' # lastCall /\ lastCall'.op = "stop" /\ ~lastCall'.had) =>
             (~instance' /\ UNCHANGED exceptLastCall)]_vars

C17_Witness ==
    /\ lastCall.op = "start" /\ lastCall.had
    /\ created = 1 /\ live = 1 /\ objects = 1
    /\ pc = "sleep" /\ playNotes # {}

\* C18 as stated: after stop is called on a started instance the polling loop
\* exits and stop returns, under every fair interleaving, a stop issued before
\* the thread's first statement included.
C18_AsStated == (opc = "join") ~> (opc = "idle" /\ pc = "exit")

\* A stop whose write of reading comes after the thread's first statement
\* does return.
TeardownAfterEntry ==
    (opc = "join" /\ pc # "start" /\ lastWriter = "owner") ~> (opc = "idle" /\ pc = "exit")

\* C19: the device is released only after the polling loop has exited, and the
\* thread is never at the receive call or in the loop once the device is
\* released or the instance destroyed.
C19_NoUseOfReleasedTransport ==
    (released \/ ~instance) => pc \in {"none", "exit"}

C19_Witness ==
    /\ released /\ ~instance /\ pc = "exit"
    /\ lastCall.op = "stop" /\ lastCall.had
    /\ playNotes # {}

\* C20 as stated: reading is written only by the owning context, never by the
\* polling thread.
C20_AsStated == lastWriter # "thread"

\* C23: in every reachable state, if the flag is set then Playing Notes is a
\* subset of Sustained Notes; so a held note released while the pedal is down
\* is in Sustained Notes when its NoteOff arrives.
C23_HeldNotesLatched ==
    /\ sustain => playNotes \subseteq sustainNotes
    /\ (Processed /\ IsNoteOffFrame(incomingMessage) /\ pre.sustain
          /\ Data1 \in pre.playNotes) => Data1 \in pre.sustainNotes

C23_Witness ==
    /\ Processed /\ IsNoteOffFrame(incomingMessage)
    /\ pre.sustain /\ pre.lastPedal = "other"
    /\ Data1 \in pre.playNotes /\ Data1 \in pre.sustainNotes
    /\ Cardinality(playNotes) = 2

\* C24: in every reachable state, if the flag is clear then Sustained Notes is
\* empty; so a NoteOff with the flag clear finds nothing to remove from it.
C24_NoSustainedWhenPedalUp ==
    /\ ~sustain => sustainNotes = {}
    /\ (Processed /\ IsNoteOffFrame(incomingMessage) /\ ~pre.sustain) =>
          pre.sustainNotes = {}

C24_Witness ==
    /\ Processed /\ IsPedalUp(incomingMessage)
    /\ pre.sustain /\ pre.sustainNotes \ pre.playNotes # {} /\ pre.playNotes # {}
    /\ ~sustain /\ sustainNotes = {}

\* C25: a KeyPressure, ProgramChange, ChannelPressure, PitchBend or Unparsed
\* frame makes no synthesizer call and changes none of the three fields.
C25_OtherCommandsTraceOnly ==
    (Processed /\ incomingMessage[1] \div 16 \notin {8, 9, 11}) =>
        /\ calls = <<>>
        /\ SameState

C25_Witness ==
    /\ Processed
    /\ incomingMessage = <<201, 60, 64>>
    /\ traces = <<"Program Change">>
    /\ pre.sustain /\ pre.playNotes # {} /\ 60 \notin pre.playNotes

\* C22: in an instance lifetime that starts with a silent synthesizer, after
\* every processed frame the notes sent a noteOn and no noteOff since are
\* exactly Playing Notes and Sustained Notes together; so Sustained Notes holds
\* only sounding notes, and with no key held and the pedal up nothing sounds.
C22_SoundingMatchesTracked ==
    /\ sounding = playNotes \cup sustainNotes
    /\ sustainNotes \subseteq sounding
    /\ (playNotes = {} /\ ~sustain) => sounding = {}

C22_Witness ==
    /\ Processed /\ IsPedalUp(incomingMessage)
    /\ pre.sustainNotes \ pre.playNotes # {}
    /\ pre.playNotes # {}
    /\ sounding = playNotes
    /\ Len(calls) = Cardinality(pre.sustainNotes \ pre.playNotes)

\* C21 as stated: whenever the creation of the settings, of the synthesizer or
\* of the audio driver failed, no noteOn, noteOff, sendCC or reverb call goes
\* into the fluid synth object.
C21_AsStated == engineInit # "ok" => fluid = <<>>

\* What the guard does give: with synth null no call goes into the object.
NullSynthIsSilent == synth = "null" => fluid = <<>>

\* C26: once the polling loop of an instance has exited on a negative result,
\* the thread stays exited and no thread is created for as long as that
\* instance exists; a start call then finds the instance and changes nothing.
\* Frames are processed again only after stop and a new start.
C26_NoRevivalWithoutTeardown ==
    [][(fatal /\ instance /\ pc = "exit") =>
          /\ pc' = "exit" /\ created' = created /\ live' = live
          /\ calls' = calls /\ traces' = traces
          /\ sustain' = sustain /\ playNotes' = playNotes /\ sustainNotes' = sustainNotes
          /\ (lastCall' # lastCall /\ lastCall'.op = "start") =>
                (lastCall'.had /\ instance' /\ UNCHANGED exceptLastCall)]_vars

C26_Witness ==
    /\ fatal /\ instance /\ pc = "exit" /\ opc = "idle"
    /\ lastCall.op = "start" /\ lastCall.had /\ lastCall.pc = "exit"
    /\ created = 1 /\ live = 0
    /\ playNotes # {}

====
